---- MODULE Spec2Model ----
(***************************************************************************)
(* A model of fetch_images.py: the per-URL pipeline fetch_and_save_image   *)
(* (fetch, validate headers, derive filename, stage, fingerprint, commit   *)
(* or discard), the header validators, and the driver main (seeding scan   *)
(* of the output directory, URL list, processing loop).                    *)
(*                                                                         *)
(* Text (URLs, header values, file names, file contents) is modelled by    *)
(* TLA+ strings, read one character at a time with SubSeq.  The output     *)
(* directory is a function from the names of the files it holds to their   *)
(* contents.                                                               *)
(***************************************************************************)
EXTENDS Integers, Sequences, FiniteSets, TLC

(***************************************************************************)
(* Bounds of the model.                                                    *)
(***************************************************************************)
MaxUrls == 3     \* the most URLs on one input line
MaxCalls == 3    \* the most calls of fetch_and_save_image over all runs

(***************************************************************************)
(* Characters and strings.                                                 *)
(***************************************************************************)
Char(s, i) == SubSeq(s, i, i)

LowerLetters == {"a", "b", "c", "d", "e", "f", "g", "h", "i", "j", "k", "l", "m",
                 "n", "o", "p", "q", "r", "s", "t", "u", "v", "w", "x", "y", "z"}

UpperLetters == {"A", "B", "C", "D", "E", "F", "G", "H", "I", "J", "K", "L", "M",
                 "N", "O", "P", "Q", "R", "S", "T", "U", "V", "W", "X", "Y", "Z"}

Digits == {"0", "1", "2", "3", "4", "5", "6", "7", "8", "9"}

\* str.isalnum() of one character (ASCII range)
IsAlnum(c) == c \in LowerLetters \cup UpperLetters \cup Digits

\* str.lower() of one character
LowerChar(c) ==
    CASE c = "A" -> "a" [] c = "B" -> "b" [] c = "C" -> "c" [] c = "D" -> "d"
      [] c = "E" -> "e" [] c = "F" -> "f" [] c = "G" -> "g" [] c = "H" -> "h"
      [] c = "I" -> "i" [] c = "J" -> "j" [] c = "K" -> "k" [] c = "L" -> "l"
      [] c = "M" -> "m" [] c = "N" -> "n" [] c = "O" -> "o" [] c = "P" -> "p"
      [] c = "Q" -> "q" [] c = "R" -> "r" [] c = "S" -> "s" [] c = "T" -> "t"
      [] c = "U" -> "u" [] c = "V" -> "v" [] c = "W" -> "w" [] c = "X" -> "x"
      [] c = "Y" -> "y" [] c = "Z" -> "z" [] OTHER -> c

RECURSIVE Lower(_)
Lower(s) == IF s = "" THEN "" ELSE LowerChar(Char(s, 1)) \o Lower(SubSeq(s, 2, Len(s)))

\* s[from..] as a string
Tail_(s, from) == SubSeq(s, from, Len(s))

\* str.find(c, from): least index >= from holding c, 0 when there is none
RECURSIVE Find(_, _, _)
Find(s, c, from) ==
    IF from > Len(s) THEN 0
    ELSE IF Char(s, from) = c THEN from
    ELSE Find(s, c, from + 1)

\* str.rfind(c): greatest index holding c, 0 when there is none
RECURSIVE RFindFrom(_, _, _)
RFindFrom(s, c, i) ==
    IF i = 0 THEN 0
    ELSE IF Char(s, i) = c THEN i
    ELSE RFindFrom(s, c, i - 1)

RFind(s, c) == RFindFrom(s, c, Len(s))

\* least index >= from holding a character of cs, Len(s) + 1 when there is none
RECURSIVE FindAny(_, _, _)
FindAny(s, cs, from) ==
    IF from > Len(s) THEN Len(s) + 1
    ELSE IF Char(s, from) \in cs THEN from
    ELSE FindAny(s, cs, from + 1)

Whitespace == {" "}

\* str.strip()
RECURSIVE LStrip(_)
LStrip(s) == IF s # "" /\ Char(s, 1) \in Whitespace THEN LStrip(Tail_(s, 2)) ELSE s

RECURSIVE RStrip(_)
RStrip(s) ==
    IF s # "" /\ Char(s, Len(s)) \in Whitespace THEN RStrip(SubSeq(s, 1, Len(s) - 1)) ELSE s

Strip(s) == RStrip(LStrip(s))

\* str.split(","): the pieces between commas, empty pieces included
RECURSIVE SplitComma(_)
SplitComma(s) ==
    LET k == Find(s, ",", 1)
    IN  IF k = 0 THEN <<s>>
        ELSE <<SubSeq(s, 1, k - 1)>> \o SplitComma(Tail_(s, k + 1))

(***************************************************************************)
(* Response headers: requests' case-insensitive header dictionary, reduced *)
(* to the two headers the program reads.  has* tells whether the header    *)
(* is present; the value is meaningful only when it is.                    *)
(***************************************************************************)
Headers(hasType, ctype, hasLen, clen) ==
    [hasType |-> hasType, ctype |-> ctype, hasLen |-> hasLen, clen |-> clen]

\* headers.get('Content-Type', '')
GetContentType(headers) == IF headers.hasType THEN headers.ctype ELSE ""

valid_types == {"image/jpeg", "image/png", "image/gif", "image/webp", "image/bmp"}

\* the type is compared as sent, without lower-casing it
validate_NoLower(headers) == GetContentType(headers) \in valid_types

validate_image_image_content_type(headers) ==
    Lower(GetContentType(headers)) \in valid_types

DefaultMaxSize == 10 * 1024 * 1024

(***************************************************************************)
(* int(str): surrounding whitespace is ignored, one sign is allowed, the   *)
(* digits may be grouped by single underscores.  Anything else raises      *)
(* ValueError.                                                             *)
(***************************************************************************)
RECURSIVE AllIn(_, _)
AllIn(s, cs) == s = "" \/ (Char(s, 1) \in cs /\ AllIn(Tail_(s, 2), cs))

RECURSIVE HasDoubleUnderscore(_)
HasDoubleUnderscore(s) ==
    /\ Len(s) >= 2
    /\ \/ SubSeq(s, 1, 2) = "__"
       \/ HasDoubleUnderscore(Tail_(s, 2))

RECURSIVE DropUnderscores(_)
DropUnderscores(s) ==
    IF s = "" THEN ""
    ELSE (IF Char(s, 1) = "_" THEN "" ELSE Char(s, 1)) \o DropUnderscores(Tail_(s, 2))

DigitValue(c) ==
    CASE c = "0" -> 0 [] c = "1" -> 1 [] c = "2" -> 2 [] c = "3" -> 3 [] c = "4" -> 4
      [] c = "5" -> 5 [] c = "6" -> 6 [] c = "7" -> 7 [] c = "8" -> 8 [] c = "9" -> 9

\* the value of a digit string, saturated at cap (values above cap compare alike)
RECURSIVE SatValue(_, _, _)
SatValue(ds, acc, cap) ==
    IF ds = "" THEN acc
    ELSE LET v == acc * 10 + DigitValue(Char(ds, 1))
         IN  SatValue(Tail_(ds, 2), IF v > cap THEN cap ELSE v, cap)

\* int(s): [ok |-> FALSE] for ValueError, else the sign and the digits
ParseInt(s) ==
    LET t    == Strip(s)
        sgn  == IF t # "" /\ Char(t, 1) \in {"+", "-"} THEN Char(t, 1) ELSE ""
        body == IF sgn = "" THEN t ELSE Tail_(t, 2)
        ok   == /\ body # ""
                /\ AllIn(body, Digits \cup {"_"})
                /\ Char(body, 1) \in Digits
                /\ Char(body, Len(body)) \in Digits
                /\ ~HasDoubleUnderscore(body)
    IN  [ok |-> ok, neg |-> (sgn = "-"), digits |-> IF ok THEN DropUnderscores(body) ELSE ""]

\* int(content_length) <= max_size, for max_size >= 0
IntLeq(n, max_size) ==
    LET v == SatValue(n.digits, 0, max_size + 1)
    IN  IF n.neg THEN 0 - v <= max_size ELSE v <= max_size

check_content_length(headers, max_size) ==
    IF headers.hasLen /\ headers.clen # ""      \* if content_length: (None and '' are falsy)
    THEN LET n == ParseInt(headers.clen)
         IN  IF n.ok THEN IntLeq(n, max_size) ELSE FALSE
    ELSE TRUE

(***************************************************************************)
(* Digests.  SHA-256 and MD5 are tabulated for the file contents and the   *)
(* URLs of the model; the entries are the real digests.                    *)
(***************************************************************************)
Bodies == {"A", "B"}

SHA256(data) ==
    CASE data = ""  -> "e3b0c44298fc1c149afbf4c8996fb92427ae41e4649b934ca495991b7852b855"
      [] data = "A" -> "559aead08264d5795d3909718cdd05abd49572e84fe55590eef31a88a08fdffd"
      [] data = "B" -> "df7e70e5021544f4834bbee64a9e3789febc4be81470df629cad6ddb03320a5c"

\* the URLs the user types in the model
Urls == {"http://e/a.png", "http://e/a.png.tmp", "http://e/~"}

\* the URLs the file name derivation is examined on
AllUrls == Urls \cup {"http://e/a.PNG", "http://e/x/a.png?q=1", "http://e/",
                     "https://example.com/a/b/photo.JPG?x=1", "https://example.com/",
                     "http://e/my%20pic(1).jpg", "http://e/..", "http://e/d/?f=a.png",
                     "http://e/a;p.png"}

\* hashlib.md5(url.encode()).hexdigest()
MD5Hex(url) ==
    CASE url = "http://e/a.png"       -> "0495a1642be58419e104e7bf5792accc"
      [] url = "http://e/x/a.png?q=1" -> "513802eda9b28d5e1aa453655445b7ce"
      [] url = "http://e/a.PNG"       -> "b003c9f0b865bcb8a6713103fcc40b56"
      [] url = "http://e/~"           -> "bfe8a47fd0f1d498026cc60b3f95bf7c"
      [] url = "http://e/"            -> "eb8e88af83ef6f78511c1f41a072bac0"
      [] url = "http://e/a.png.tmp"   -> "9776a274f61b6bae72d5bfa8b381d049"
      [] url = "https://example.com/a/b/photo.JPG?x=1" -> "8eb4c0a2b6e3c8c0952ca1d85a3258b1"
      [] url = "https://example.com/"      -> "182ccedb33a9e03fbf1079b209da1a31"
      [] url = "http://e/my%20pic(1).jpg"  -> "3b5fa3c489476578a07857b0af95dc5d"
      [] url = "http://e/.."               -> "d14fda32d444104f2510ecca73f613bb"
      [] url = "http://e/d/?f=a.png"       -> "f7e679dc1a777049fdd0fcf6673787db"
      [] url = "http://e/a;p.png"          -> "922672caae38d30c6459369bc21a5f14"

(***************************************************************************)
(* urllib.parse.urlparse(url).path: the scheme up to the first ':', the    *)
(* network location after '//' up to the first '/', '?' or '#', then the   *)
(* fragment, the query and the parameters of the last segment are cut off. *)
(***************************************************************************)
scheme_chars == LowerLetters \cup UpperLetters \cup Digits \cup {"+", "-", "."}

uses_params == {"", "ftp", "hdl", "prospero", "http", "imap", "https", "shttp",
                "rtsp", "rtspu", "sip", "sips", "mms", "sftp", "tel"}

\* s up to, not including, the first occurrence of c
CutAt(s, c) == LET k == Find(s, c, 1) IN IF k = 0 THEN s ELSE SubSeq(s, 1, k - 1)

urlparse_path(url) ==
    LET i         == Find(url, ":", 1)
        hasScheme == /\ i > 1
                     /\ Char(url, 1) \in LowerLetters \cup UpperLetters
                     /\ AllIn(SubSeq(url, 1, i - 1), scheme_chars)
        scheme    == IF hasScheme THEN Lower(SubSeq(url, 1, i - 1)) ELSE ""
        rest      == IF hasScheme THEN Tail_(url, i + 1) ELSE url
        afterNet  == IF Len(rest) >= 2 /\ SubSeq(rest, 1, 2) = "//"
                     THEN Tail_(rest, FindAny(rest, {"/", "?", "#"}, 3))
                     ELSE rest
        noQuery   == CutAt(CutAt(afterNet, "#"), "?")
        slash     == RFind(noQuery, "/")
        semi      == Find(noQuery, ";", IF slash = 0 THEN 1 ELSE slash)
    IN  IF scheme \in uses_params /\ semi > 0
        THEN SubSeq(noQuery, 1, semi - 1)
        ELSE noQuery

\* os.path.basename (POSIX): what follows the last '/'
basename(path) == Tail_(path, RFind(path, "/") + 1)

(***************************************************************************)
(* mimetypes.guess_extension(type): the type is lower-cased and looked up  *)
(* in the table of standard types; None when it is not there.              *)
(***************************************************************************)
guess_extension(type) ==
    LET t == Lower(type)
    IN  CASE t = "image/jpeg" -> [found |-> TRUE, ext |-> ".jpg"]
          [] t = "image/png"  -> [found |-> TRUE, ext |-> ".png"]
          [] t = "image/gif"  -> [found |-> TRUE, ext |-> ".gif"]
          [] t = "image/webp" -> [found |-> TRUE, ext |-> ".webp"]
          [] t = "image/bmp"  -> [found |-> TRUE, ext |-> ".bmp"]
          [] t = "text/html"  -> [found |-> TRUE, ext |-> ".html"]
          [] OTHER            -> [found |-> FALSE, ext |-> ""]

\* an f-string renders None as the text None
FormatExt(g) == IF g.found THEN g.ext ELSE "None"

\* the characters kept are lower-cased as well
RECURSIVE Sanitize_Lower(_)
Sanitize_Lower(s) ==
    IF s = "" THEN ""
    ELSE LET c == Char(s, 1)
         IN  (IF IsAlnum(c) \/ c \in {".", "_", "-"} THEN LowerChar(c) ELSE "")
                 \o Sanitize_Lower(Tail_(s, 2))

\* "".join(c for c in filename if c.isalnum() or c in (".", "_", "-"))
RECURSIVE Sanitize(_)
Sanitize(s) ==
    IF s = "" THEN ""
    ELSE LET c == Char(s, 1)
         IN  (IF IsAlnum(c) \/ c \in {".", "_", "-"} THEN c ELSE "") \o Sanitize(Tail_(s, 2))

\* the file name of lines 54-61, before it is joined with output_dir
DeriveFilename(url, headers) ==
    LET segment == basename(urlparse_path(url))
        guess   == guess_extension(GetContentType(headers))
        chosen  == IF segment = "" \/ ~guess.found
                   THEN "downloaded_image_" \o SubSeq(MD5Hex(url), 1, 8) \o FormatExt(guess)
                   ELSE segment
    IN  Sanitize(chosen)

(***************************************************************************)
(* The network.  requests.get either raises one of requests' exceptions    *)
(* or returns a response (status, headers, content).  Bases gives each     *)
(* exception class its direct base classes, as requests.exceptions and the *)
(* builtins declare them.                                                  *)
(***************************************************************************)
Bases(cls) ==
    CASE cls = "HTTPError"        -> {"RequestException"}
      [] cls = "ConnectionError"  -> {"RequestException"}
      [] cls = "Timeout"          -> {"RequestException"}
      [] cls = "ConnectTimeout"   -> {"ConnectionError", "Timeout"}
      [] cls = "ReadTimeout"      -> {"Timeout"}
      [] cls = "TooManyRedirects" -> {"RequestException"}
      [] cls = "RequestException" -> {"OSError"}
      [] cls = "OSError"          -> {"Exception"}
      [] cls = "Exception"        -> {}

\* isinstance(exception of class cls, target)
RECURSIVE IsInstance(_, _)
IsInstance(cls, target) ==
    cls = target \/ \E b \in Bases(cls) : IsInstance(b, target)

\* the exceptions requests.get raises in the model: a refused connection, the
\* timeout met while connecting, the timeout met while reading, a redirect loop
GetExceptions == {"ConnectionError", "ConnectTimeout", "ReadTimeout", "TooManyRedirects"}

NoHeaders == Headers(FALSE, "", FALSE, "")

PngHeaders == Headers(TRUE, "image/png", FALSE, "")

HtmlHeaders == Headers(TRUE, "text/html", FALSE, "")

HugeHeaders == Headers(TRUE, "image/png", TRUE, "999999999999")

HeaderChoices == {NoHeaders, PngHeaders, HtmlHeaders, HugeHeaders}

\* Content-Type values as a server may send them
TypeValues == {"image/jpeg", "image/png", "image/gif", "image/webp", "image/bmp",
               "IMAGE/PNG", "Image/Jpeg", "", "text/html", "image/jpg",
               "image/png; charset=binary", " image/png", "image/svg+xml",
               "application/octet-stream", "image/", "png"}

\* the header dictionaries the type check is examined on
TypeHeaders == {NoHeaders} \cup {Headers(TRUE, t, FALSE, "") : t \in TypeValues}

AllHeaders == HeaderChoices \cup TypeHeaders

Response(status, headers, content) ==
    [exc |-> "none", status |-> status, headers |-> headers, content |-> content]

\* what the network does with one request
NetResults ==
    {[exc |-> e, status |-> 0, headers |-> NoHeaders, content |-> ""] : e \in GetExceptions}
    \cup {Response(404, HtmlHeaders, "")}
    \cup {Response(200, HtmlHeaders, "A"), Response(200, HugeHeaders, "A")}
    \cup {Response(200, PngHeaders, b) : b \in Bodies}

\* response.raise_for_status() raises HTTPError
raise_for_status(status) == status >= 400 /\ status < 600

\* the header checks and the file name derivation over the headers and URLs of
\* the model, as explicit tables (@@ <<>> makes the table explicit: it is
\* evaluated once, not at every step)
TypeAccepted == [h \in AllHeaders |-> validate_image_image_content_type(h)] @@ <<>>

LengthAccepted == [h \in AllHeaders |-> check_content_length(h, DefaultMaxSize)] @@ <<>>

FilenameOf == [p \in AllUrls \X AllHeaders |-> DeriveFilename(p[1], p[2])] @@ <<>>

(***************************************************************************)
(* The output directory: a function from the names of its files to their   *)
(* contents.  A file step that the operating system refuses raises         *)
(* OSError; fault names the step that is refused in one call.              *)
(***************************************************************************)
Faults == {"none", "open", "write", "read", "remove", "rename"}

\* the steps that can be refused in a call that receives net: a call that ends
\* before staging has no file step
FaultsFor(net) ==
    IF /\ net.exc = "none"
       /\ ~raise_for_status(net.status)
       /\ TypeAccepted[net.headers]
       /\ LengthAccepted[net.headers]
    THEN Faults
    ELSE {"none"}

WriteFile(d, name, data) == [n \in DOMAIN d \cup {name} |-> IF n = name THEN data ELSE d[n]]

RemoveFile(d, name) == [n \in DOMAIN d \ {name} |-> d[n]]

\* os.path.join(output_dir, name) names a directory, not a file in it
IsDirectoryName(name) == name \in {"", ".", ".."}

\* a copy in place of the move: the source stays
RenameFile_Copy(d, src, dst) == WriteFile(d, dst, d[src])

\* os.rename(src, dst) of a file onto a file name
RenameFile(d, src, dst) == WriteFile(RemoveFile(d, src), dst, d[src])

\* the body is written straight to the final path
TempPath_InPlace(filepath) == filepath

\* line 65: the staging path of a final path
TempPath(filepath) == filepath \o ".tmp"

\* lines 66-67 when they succeed: the body is written to the staging path
Stage(d, temp_filepath, content) == WriteFile(d, temp_filepath, content)

\* line 72: the staged file is removed
Discard(d, temp_filepath) == RemoveFile(d, temp_filepath)

\* no digest is ever found in the set
IsDuplicate_Never(file_hash, hashes) == FALSE

\* line 71: file_hash in existing_hashes
IsDuplicate(file_hash, hashes) == file_hash \in hashes

\* the hash set is replaced by the new digest alone
Commit_Replace(d, temp_filepath, filepath, hashes, file_hash) ==
    [disk |-> RenameFile(d, temp_filepath, filepath), hashes |-> {file_hash}]

\* the digest is not recorded
Commit_NoRecord(d, temp_filepath, filepath, hashes, file_hash) ==
    [disk |-> RenameFile(d, temp_filepath, filepath), hashes |-> hashes]

\* the digest is recorded but the staged file is not moved
Commit_NoRename(d, temp_filepath, filepath, hashes, file_hash) ==
    [disk |-> d, hashes |-> hashes \cup {file_hash}]

\* lines 76-77: the staged file is moved into place and its digest recorded
Commit(d, temp_filepath, filepath, hashes, file_hash) ==
    [disk |-> RenameFile(d, temp_filepath, filepath), hashes |-> hashes \cup {file_hash}]

\* the clause for RequestException comes first
Handlers_GenericFirst == << [cls |-> "RequestException", kind |-> "NetworkError"],
                            [cls |-> "HTTPError",        kind |-> "HttpError"],
                            [cls |-> "ConnectionError",  kind |-> "ConnectionError"],
                            [cls |-> "Timeout",          kind |-> "TimeoutError"],
                            [cls |-> "Exception",        kind |-> "UnexpectedError"] >>

\* the except clauses without the last one
Handlers_NoCatchAll == << [cls |-> "HTTPError",        kind |-> "HttpError"],
                          [cls |-> "ConnectionError",  kind |-> "ConnectionError"],
                          [cls |-> "Timeout",          kind |-> "TimeoutError"],
                          [cls |-> "RequestException", kind |-> "NetworkError"] >>

\* the except clauses of fetch_and_save_image, in order
Handlers == << [cls |-> "HTTPError",        kind |-> "HttpError"],
               [cls |-> "ConnectionError",  kind |-> "ConnectionError"],
               [cls |-> "Timeout",          kind |-> "TimeoutError"],
               [cls |-> "RequestException", kind |-> "NetworkError"],
               [cls |-> "Exception",        kind |-> "UnexpectedError"] >>

\* the outcome of the first except clause that matches the raised class;
\* "uncaught" when none does and the exception leaves the function
RECURSIVE HandleFrom(_, _)
HandleFrom(cls, k) ==
    IF k > Len(Handlers) THEN "uncaught"
    ELSE IF IsInstance(cls, Handlers[k].cls) THEN Handlers[k].kind
    ELSE HandleFrom(cls, k + 1)

Handle(cls) == HandleFrom(cls, 1)

OutcomeKinds == {"Success", "DuplicateSkipped", "InvalidContentType", "TooLarge", "HttpError",
                 "ConnectionError", "TimeoutError", "NetworkError", "UnexpectedError"}

\* the call ends in an except clause: cls was raised at the step failed
Raised(cls, d, hashes, filename, failed) ==
    [kind |-> Handle(cls), disk |-> d, hashes |-> hashes, filename |-> filename,
     failed |-> failed]

\* the call ends at a return statement of the try block
Returned(kind, d, hashes, filename) ==
    [kind |-> kind, disk |-> d, hashes |-> hashes, filename |-> filename, failed |-> "none"]

(***************************************************************************)
(* fetch_and_save_image(url, output_dir, existing_hashes): the outcome of  *)
(* one call, and the directory and the hash set it leaves, when the        *)
(* network answers net and the operating system refuses the step fault.    *)
(***************************************************************************)
fetch_and_save_image(url, net, fault, d, hashes) ==
    LET filename      == FilenameOf[<<url, net.headers>>]
        temp_filepath == TempPath(filename)
        staged        == Stage(d, temp_filepath, net.content)
        file_hash     == SHA256(staged[temp_filepath])
        committed     == Commit(staged, temp_filepath, filename, hashes, file_hash)
    IN  IF net.exc # "none" THEN Raised(net.exc, d, hashes, filename, "get")
        ELSE IF raise_for_status(net.status)
             THEN Raised("HTTPError", d, hashes, filename, "status")
        ELSE IF ~TypeAccepted[net.headers]
             THEN Returned("InvalidContentType", d, hashes, filename)
        ELSE IF ~LengthAccepted[net.headers]
             THEN Returned("TooLarge", d, hashes, filename)
        ELSE IF fault = "open" THEN Raised("OSError", d, hashes, filename, "open")
        ELSE IF fault = "write"
             THEN Raised("OSError", Stage(d, temp_filepath, ""), hashes, filename, "write")
        ELSE IF fault = "read" THEN Raised("OSError", staged, hashes, filename, "read")
        ELSE IF IsDuplicate(file_hash, hashes)
             THEN IF fault = "remove"
                  THEN Raised("OSError", staged, hashes, filename, "remove")
                  ELSE Returned("DuplicateSkipped", Discard(staged, temp_filepath),
                                hashes, filename)
        ELSE IF fault = "rename" \/ IsDirectoryName(filename)
             THEN Raised("OSError", staged, hashes, filename, "rename")
        ELSE Returned("Success", committed.disk, committed.hashes, filename)

(***************************************************************************)
(* main: the seeding scan of the output directory, the URL list read from  *)
(* the user, the processing loop.                                          *)
(***************************************************************************)
VARIABLES
    disk,             \* the files of Fetched_Images: name -> content
    existing_hashes,  \* the set of SHA-256 digests main passes to every call
    urls,             \* the URLs of this run the loop has still to process, in order
    total,            \* the number of URLs read in this run
    printed,          \* the number of results the loop printed in this run
    pc,               \* where main is: "start", "loop", "done", "aborted", "crashed"
    calls,            \* the number of calls of fetch_and_save_image over all runs
    last,             \* the latest call of fetch_and_save_image in this run
    succeeded,        \* the <<url, content>> pairs fetched successfully in this run
    prev_success,     \* the <<url, content>> pairs fetched successfully in the run before
    seeded,           \* the digests the scan of this run put into the hash set
    unreadable,       \* the file whose read failed in the scan of this run, "" if none
    probe             \* a function applied on its own: its arguments and its result

vars == <<disk, existing_hashes, urls, total, printed, pc, calls, last, succeeded, prev_success,
          seeded, unreadable, probe>>

\* pathlib's PurePath.suffix of a file name
Suffix(name) ==
    LET i == RFind(name, ".")
    IN  IF 1 < i /\ i < Len(name) THEN Tail_(name, i) ELSE ""

image_suffixes == {".jpg", ".png", ".gif", ".bmp", ".webp"}

\* lines 101-102: the files of the directory that the scan reads
Scanned(d) == {g \in DOMAIN d : Suffix(g) \in image_suffixes}

\* lines 101-104: the digests of the files of the directory that the scan reads
SeedHashes(d) == {SHA256(d[f]) : f \in Scanned(d)}

\* lines 107-108: the non-empty stripped pieces of the input line
RECURSIVE StripNonEmpty(_)
StripNonEmpty(pieces) ==
    IF pieces = <<>> THEN <<>>
    ELSE (IF Strip(Head(pieces)) # "" THEN <<Strip(Head(pieces))>> ELSE <<>>)
         \o StripNonEmpty(Tail(pieces))

ParseUrls(urls_input) == StripNonEmpty(SplitComma(urls_input))

\* the lines a user may type: up to MaxUrls URLs separated by ", ", or only a comma
RECURSIVE JoinComma(_)
JoinComma(us) ==
    IF us = <<>> THEN ""
    ELSE IF Len(us) = 1 THEN us[1]
    ELSE us[1] \o ", " \o JoinComma(Tail(us))

InputLines ==
    {JoinComma(us) : us \in UNION {[1..n -> Urls] : n \in 0..MaxUrls}} \cup {" , "}

\* the URL lists of the input lines, evaluated once
UrlLists == {ParseUrls(line) : line \in InputLines}

NoCall == [kind |-> "none", url |-> "", content |-> "", filename |-> "", failed |-> "none",
           exc |-> "none", status |-> 0, ctype |-> ""]

EmptyDisk == [n \in {} |-> ""]

NoProbe == [fn |-> "none", done |-> FALSE]

Init ==
    /\ disk = EmptyDisk           \* line 98: the first run creates the directory
    /\ existing_hashes = {}
    /\ urls = <<>>
    /\ total = 0
    /\ printed = 0
    /\ pc = "start"
    /\ calls = 0
    /\ last = NoCall
    /\ succeeded = {}
    /\ prev_success = {}
    /\ seeded = {}
    /\ unreadable = ""
    /\ probe = NoProbe

\* lines 93-112: seed the hash set from the directory, read and split the URLs.
\* The operating system may refuse the read of one scanned file (bad is its
\* name, "" when every read works): calculate_file_hash raises, nothing in main
\* catches it, and main ends before the URLs are read.
Startup ==
    /\ pc = "start"
    /\ \E bad \in {""} \cup Scanned(disk) :
          /\ unreadable' = bad
          /\ IF bad = ""
             THEN /\ \E us \in UrlLists :
                        /\ calls + Len(us) <= MaxCalls
                        /\ urls' = us
                        /\ total' = Len(us)
                        /\ pc' = IF us = <<>> THEN "done" ELSE "loop"
                  /\ existing_hashes' = SeedHashes(disk)
                  /\ seeded' = SeedHashes(disk)
             ELSE /\ pc' = "crashed"
                  /\ UNCHANGED <<urls, total, existing_hashes, seeded>>
    /\ UNCHANGED <<disk, printed, calls, last, succeeded, prev_success, probe>>

\* lines 115-118: one iteration of the loop, the whole call of fetch_and_save_image
\* on the next URL and the print of its result; an exception that leaves the call
\* ends main
ProcessUrl ==
    /\ pc = "loop"
    /\ urls # <<>>
    /\ \E net \in NetResults :
       \E fault \in FaultsFor(net) :
          \E r \in {fetch_and_save_image(Head(urls), net, fault, disk, existing_hashes)} :
              /\ disk' = r.disk
              /\ existing_hashes' = r.hashes
              /\ last' = [kind |-> r.kind, url |-> Head(urls), content |-> net.content,
                          filename |-> r.filename, failed |-> r.failed, exc |-> net.exc,
                          status |-> net.status, ctype |-> GetContentType(net.headers)]
              /\ succeeded' = IF r.kind = "Success"
                              THEN succeeded \cup {<<Head(urls), net.content>>}
                              ELSE succeeded
              /\ IF r.kind = "uncaught"
                 THEN pc' = "aborted" /\ UNCHANGED <<urls, printed>>
                 ELSE pc' = pc /\ urls' = Tail(urls) /\ printed' = printed + 1
    /\ calls' = calls + 1
    /\ UNCHANGED <<total, prev_success, seeded, unreadable, probe>>

\* line 120: the loop is over
Finish ==
    /\ pc = "loop"
    /\ urls = <<>>
    /\ pc' = "done"
    /\ UNCHANGED <<disk, existing_hashes, urls, total, printed, calls, last, succeeded,
                   prev_success, seeded, unreadable, probe>>

\* lines 122-123: the program is started again on the same directory
Restart ==
    /\ pc \in {"done", "aborted", "crashed"}
    /\ prev_success' = succeeded
    /\ pc' = "start"
    /\ existing_hashes' = {}
    /\ urls' = <<>>
    /\ total' = 0
    /\ printed' = 0
    /\ last' = NoCall
    /\ succeeded' = {}
    /\ seeded' = {}
    /\ unreadable' = ""
    /\ UNCHANGED <<disk, calls, probe>>

Next == Startup \/ ProcessUrl \/ Finish \/ Restart

Spec == Init /\ [][Next]_vars

TypeOK ==
    /\ pc \in {"start", "loop", "done", "aborted", "crashed"}
    /\ unreadable \in {""} \cup DOMAIN disk
    /\ seeded \subseteq existing_hashes
    /\ calls \in 0..MaxCalls
    /\ printed + Len(urls) <= total
    /\ last.kind \in OutcomeKinds \cup {"none", "uncaught"}

(***************************************************************************)
(* check_content_length on its own: the function is applied to a header    *)
(* dictionary and a limit drawn from LengthValues and MaxSizes.            *)
(***************************************************************************)
\* Content-Length values as a server may send them
LengthValues == {"", "0", "00", "5", "6", "100", "101", "10485760", "10485761",
                 "999999999999", "-5", "-0", "+7", " 42 ", "1_0", "abc", "1.5", "-", "4 2",
                 "0x10", "1e3"}

MaxSizes == {0, 5, 100, DefaultMaxSize}

LengthProbes ==
    {[fn |-> "check_content_length", done |-> FALSE, headers |-> h, max_size |-> m, ret |-> FALSE] :
        h \in {Headers(TRUE, "image/png", FALSE, "")}
              \cup {Headers(TRUE, "image/png", TRUE, v) : v \in LengthValues},
        m \in MaxSizes}

InitLength ==
    /\ disk = EmptyDisk
    /\ existing_hashes = {}
    /\ urls = <<>>
    /\ total = 0
    /\ printed = 0
    /\ pc = "start"
    /\ calls = 0
    /\ last = NoCall
    /\ succeeded = {}
    /\ prev_success = {}
    /\ seeded = {}
    /\ unreadable = ""
    /\ probe \in LengthProbes

\* lines 16-24: one application of check_content_length
CheckContentLength ==
    /\ probe.fn = "check_content_length"
    /\ ~probe.done
    /\ probe' = [probe EXCEPT !.done = TRUE,
                              !.ret = check_content_length(probe.headers, probe.max_size)]
    /\ UNCHANGED <<disk, existing_hashes, urls, total, printed, pc, calls, last, succeeded,
                   prev_success, seeded, unreadable>>

NextLength == CheckContentLength

SpecLength == InitLength /\ [][NextLength]_vars

(***************************************************************************)
(* validate_image_image_content_type on its own, and what a call makes of  *)
(* a response with the same headers: the function is applied to a header   *)
(* dictionary drawn from TypeHeaders, and fetch_and_save_image to a 200    *)
(* response carrying it, on an empty directory and an empty hash set.      *)
(***************************************************************************)
TypeProbes ==
    {[fn |-> "validate_image_image_content_type", done |-> FALSE, headers |-> h, url |-> u,
      content |-> b, ret |-> FALSE, kind |-> "none", disk |-> EmptyDisk] :
        h \in TypeHeaders, u \in Urls, b \in Bodies}

InitType ==
    /\ disk = EmptyDisk
    /\ existing_hashes = {}
    /\ urls = <<>>
    /\ total = 0
    /\ printed = 0
    /\ pc = "start"
    /\ calls = 0
    /\ last = NoCall
    /\ succeeded = {}
    /\ prev_success = {}
    /\ seeded = {}
    /\ unreadable = ""
    /\ probe \in TypeProbes

\* lines 10-14 and 44-49: one application of the type check, and one call on a
\* response with these headers
CheckContentType ==
    /\ probe.fn = "validate_image_image_content_type"
    /\ ~probe.done
    /\ \E r \in {fetch_and_save_image(probe.url, Response(200, probe.headers, probe.content),
                                       "none", EmptyDisk, {})} :
          probe' = [probe EXCEPT !.done = TRUE,
                                 !.ret = validate_image_image_content_type(probe.headers),
                                 !.kind = r.kind,
                                 !.disk = r.disk]
    /\ UNCHANGED <<disk, existing_hashes, urls, total, printed, pc, calls, last, succeeded,
                   prev_success, seeded, unreadable>>

NextType == CheckContentType

SpecType == InitType /\ [][NextType]_vars

(***************************************************************************)
(* The file name derivation of lines 54-61 on its own: applied to a URL    *)
(* from AllUrls and a header dictionary from TypeHeaders.                  *)
(***************************************************************************)
FilenameProbes ==
    {[fn |-> "derive_filename", done |-> FALSE, url |-> u, headers |-> h, ret |-> ""] :
        u \in AllUrls, h \in TypeHeaders}

InitFilename ==
    /\ disk = EmptyDisk
    /\ existing_hashes = {}
    /\ urls = <<>>
    /\ total = 0
    /\ printed = 0
    /\ pc = "start"
    /\ calls = 0
    /\ last = NoCall
    /\ succeeded = {}
    /\ prev_success = {}
    /\ seeded = {}
    /\ unreadable = ""
    /\ probe \in FilenameProbes

\* lines 54-61: one derivation
DeriveName ==
    /\ probe.fn = "derive_filename"
    /\ ~probe.done
    /\ probe' = [probe EXCEPT !.done = TRUE,
                              !.ret = FilenameOf[<<probe.url, probe.headers>>]]
    /\ UNCHANGED <<disk, existing_hashes, urls, total, printed, pc, calls, last, succeeded,
                   prev_success, seeded, unreadable>>

NextFilename == DeriveName

SpecFilename == InitFilename /\ [][NextFilename]_vars

(***************************************************************************)
(* Properties.                                                             *)
(***************************************************************************)
\* the latest step was a call of fetch_and_save_image that returned
Called == last.kind \in OutcomeKinds

\* the latest call wrote its staging file
Staged ==
    \/ last.kind \in {"Success", "DuplicateSkipped"}
    \/ last.failed \in {"write", "read", "remove", "rename"}

\* the call received a response with a good status whose headers passed both
\* checks, and no step of it raised: it ran to the end of the try block
RanToEnd(call) ==
    /\ call.exc = "none"
    /\ call.failed = "none"
    /\ call.kind \notin {"InvalidContentType", "TooLarge"}

\* this step is a call of fetch_and_save_image
CallStep == calls' = calls + 1

\* C1: after a call returns, whatever its outcome, the staging file it created
\* (<final path>.tmp) is no longer in the output directory.
C1_NoStagingFileRemains ==
    (Called /\ Staged) => TempPath(last.filename) \notin DOMAIN disk

\* C2: a URL and content fetched successfully in one run yield DuplicateSkipped
\* when the program is started again on the same directory and the URL returns
\* the same content.
C2_RestartReproducesDedup ==
    (Called /\ RanToEnd(last) /\ <<last.url, last.content>> \in prev_success)
        => last.kind = "DuplicateSkipped"

\* a name the program gives to stored images only: not a staging name
IsFinalName(name) == Len(name) < 4 \/ SubSeq(name, Len(name) - 3, Len(name)) # ".tmp"

\* C3: no call changes, replaces or removes a file that was in the output
\* directory under a final (non-staging) name before the call.
C3_StoredImageImmutable ==
    [][CallStep =>
          \A n \in DOMAIN disk :
              IsFinalName(n) => (n \in DOMAIN disk' /\ disk'[n] = disk[n])]_vars

\* C4: within one run, once a URL and content were fetched successfully, a later
\* call with the same URL returning the same content (accepted, no file step
\* refused) yields DuplicateSkipped, whatever was fetched in between.
C4_IdempotentWithinRun ==
    [][(CallStep /\ RanToEnd(last') /\ <<last'.url, last'.content>> \in succeeded)
          => last'.kind = "DuplicateSkipped"]_vars

C4_Witness ==
    /\ printed = 3
    /\ last.kind = "DuplicateSkipped"
    /\ <<last.url, last.content>> \in succeeded
    /\ Cardinality(succeeded) = 2

\* C5: a call adds a digest to the hash set exactly when it has put the file with
\* that digest at its final path: every digest a call adds is the digest of the
\* file then at the call's final path, a call that commits adds the digest of the
\* content, and nothing is added when the staged file was deleted or the rename
\* failed.
C5_FingerprintAddedIffStored ==
    [][CallStep =>
          LET added == existing_hashes' \ existing_hashes
          IN  /\ \A h \in added :
                    /\ last'.filename \in DOMAIN disk'
                    /\ SHA256(disk'[last'.filename]) = h
              /\ last'.kind = "Success" => added = {SHA256(last'.content)}
              /\ (last'.kind = "DuplicateSkipped" \/ last'.failed \in {"remove", "rename"})
                    => added = {}]_vars

C5_Witness ==
    /\ last.kind = "Success"
    /\ SHA256(last.content) \in existing_hashes
    /\ Cardinality(existing_hashes) = 2

\* C6: when a call returns Success, the digest of the received content is in the
\* hash set, the file at the final path holds exactly the received content, and
\* no staging file of the call remains.
C6_SuccessPostcondition ==
    last.kind = "Success" =>
        /\ SHA256(last.content) \in existing_hashes
        /\ last.filename \in DOMAIN disk
        /\ disk[last.filename] = last.content
        /\ TempPath(last.filename) \notin DOMAIN disk

C6_Witness ==
    /\ last.kind = "Success"
    /\ last.url = "http://e/a.png"
    /\ last.content = "B"
    /\ printed = 2

\* C7: a call that returns any outcome other than Success leaves the hash set
\* unchanged and creates no file at its final path.
C7_FailureLeavesNoFinalFile ==
    [][(CallStep /\ last'.kind # "Success") =>
          /\ existing_hashes' = existing_hashes
          /\ last'.filename \in DOMAIN disk' => last'.filename \in DOMAIN disk]_vars

C7_Witness ==
    /\ last.kind = "UnexpectedError"
    /\ last.failed = "read"
    /\ TempPath(last.filename) \in DOMAIN disk
    /\ last.filename \notin DOMAIN disk

\* C8: every call processes the next URL of the list in the supplied order and
\* yields exactly one outcome, no failure leaves fetch_and_save_image, and the
\* loop goes on with the following URLs.
C8_EveryUrlYieldsOneOutcome ==
    [][CallStep =>
          /\ last'.url = Head(urls)
          /\ last'.kind \in OutcomeKinds
          /\ urls' = Tail(urls)
          /\ printed' = printed + 1
          /\ pc' = "loop"]_vars

C8_Witness ==
    /\ pc = "loop"
    /\ last.kind = "UnexpectedError"
    /\ last.failed = "rename"
    /\ urls # <<>>
    /\ printed = 2

\* C9: a refused connection yields ConnectionError and every timeout, met while
\* connecting or while reading, yields TimeoutError.
C9_TimeoutAndRefusalDistinct ==
    Called =>
        /\ last.exc = "ConnectionError" => last.kind = "ConnectionError"
        /\ last.exc \in {"ConnectTimeout", "ReadTimeout"} => last.kind = "TimeoutError"

\* what C10 says check_content_length returns
LengthClaimed(headers, max_size) ==
    IF ~headers.hasLen THEN TRUE
    ELSE LET n == ParseInt(headers.clen)
             nonNegative == n.ok /\ (~n.neg \/ AllIn(n.digits, {"0"}))
         IN  nonNegative /\ IntLeq(n, max_size)

\* C10: check_content_length returns true when Content-Length is absent; when it
\* is present it returns true iff the value parses as a non-negative integer that
\* is <= max_size, and false for every other present value.
C10_ContentLengthCheck ==
    (probe.fn = "check_content_length" /\ probe.done)
        => probe.ret = LengthClaimed(probe.headers, probe.max_size)

\* what C11 says validate_image_image_content_type returns
TypeClaimed(headers) ==
    /\ headers.hasType
    /\ headers.ctype # ""
    /\ \E t \in {"image/jpeg", "image/png", "image/gif", "image/webp", "image/bmp"} :
          Lower(headers.ctype) = t

\* C11: validate_image_image_content_type returns true iff the lower-cased
\* Content-Type equals one of image/jpeg, image/png, image/gif, image/webp,
\* image/bmp, false when the header is absent or empty; a response that fails
\* the check yields InvalidContentType and its body is written to no file.
C11_ContentTypeCheck ==
    (probe.fn = "validate_image_image_content_type" /\ probe.done) =>
        /\ probe.ret = TypeClaimed(probe.headers)
        /\ ~probe.ret => (probe.kind = "InvalidContentType" /\ probe.disk = EmptyDisk)
        /\ probe.ret => probe.kind # "InvalidContentType"

C11_Witness ==
    /\ probe.fn = "validate_image_image_content_type"
    /\ probe.done
    /\ probe.headers.ctype = "image/png; charset=binary"
    /\ ~probe.ret
    /\ probe.kind = "InvalidContentType"

\* the characters C12 and C20 allow in a file name
SafeChars == LowerLetters \cup UpperLetters \cup Digits \cup {".", "_", "-"}

\* s without the characters outside SafeChars, built from the right
RECURSIVE KeepSafe(_)
KeepSafe(s) ==
    IF Len(s) = 0 THEN ""
    ELSE LET c == Char(s, Len(s))
         IN  KeepSafe(SubSeq(s, 1, Len(s) - 1)) \o (IF c \in SafeChars THEN c ELSE "")

\* the final segment of the URL's path
FinalSegment(url) == LET path == urlparse_path(url) IN Tail_(path, RFind(path, "/") + 1)

Derived == probe.fn = "derive_filename" /\ probe.done

Guessed == guess_extension(GetContentType(probe.headers))

\* C12: when the final segment of the URL path is non-empty and an extension
\* can be guessed from the declared content type, the file name is that segment,
\* query string discarded, without the characters other than alphanumerics, '.',
\* '_' and '-', case preserved; when the segment is empty it is
\* downloaded_image_<first 8 hex characters of MD5(url)><guessed extension>.
C12_FilenameDerivation ==
    (Derived /\ Guessed.found) =>
        /\ FinalSegment(probe.url) # "" => probe.ret = KeepSafe(FinalSegment(probe.url))
        /\ FinalSegment(probe.url) = "" =>
              probe.ret = "downloaded_image_" \o SubSeq(MD5Hex(probe.url), 1, 8) \o Guessed.ext
        /\ (probe.url = "https://example.com/a/b/photo.JPG?x=1"
              /\ probe.headers.ctype = "image/jpeg") => probe.ret = "photo.JPG"
        /\ (probe.url = "https://example.com/" /\ probe.headers.ctype = "image/png")
              => probe.ret = "downloaded_image_182ccedb.png"
        /\ probe.url = "http://e/x/a.png?q=1" => probe.ret = "a.png"
        /\ probe.url = "http://e/my%20pic(1).jpg" => probe.ret = "my20pic1.jpg"

C12_Witness ==
    /\ Derived
    /\ probe.url = "https://example.com/a/b/photo.JPG?x=1"
    /\ probe.headers.ctype = "Image/Jpeg"
    /\ probe.ret = "photo.JPG"

\* C16: when the file name is synthesized and no extension can be guessed from
\* the declared content type, it is exactly downloaded_image_<8 hex characters
\* of MD5(url)>, with nothing after the 8 hex characters.
C16_SynthesizedWithoutExtension ==
    (Derived /\ ~Guessed.found) =>
        probe.ret = "downloaded_image_" \o SubSeq(MD5Hex(probe.url), 1, 8)

\* C13: when the startup scan meets a file with a recognized image extension
\* that cannot be read, the file is skipped, startup is not aborted, and the
\* fingerprints of all other readable image files are in the initial hash set.
C13_SeedingIsBestEffort ==
    unreadable # "" =>
        /\ pc # "crashed"
        /\ {SHA256(disk[f]) : f \in Scanned(disk) \ {unreadable}} \subseteq seeded

\* the class of the exception raised in the latest call, "none" when it returned
\* from the try block
RaisedClass ==
    IF last.exc # "none" THEN last.exc
    ELSE IF last.failed = "status" THEN "HTTPError"
    ELSE IF last.failed # "none" THEN "OSError"
    ELSE "none"

FileSteps == {"open", "write", "read", "remove", "rename"}

\* C14: the outcome follows the precedence HttpError > ConnectionError >
\* TimeoutError > NetworkError > UnexpectedError: a response with status >= 400
\* is HttpError whatever its headers (a 404 with Content-Type text/html is not
\* InvalidContentType), a timeout is never NetworkError, and a failure of the
\* staging, fingerprint or rename steps is UnexpectedError.
C14_OutcomePrecedence ==
    Called =>
        /\ last.status >= 400 => last.kind = "HttpError"
        /\ last.exc \in {"ConnectTimeout", "ReadTimeout"} => last.kind # "NetworkError"
        /\ last.failed \in FileSteps => last.kind = "UnexpectedError"
        /\ RaisedClass # "none" =>
              last.kind = IF IsInstance(RaisedClass, "HTTPError") THEN "HttpError"
                          ELSE IF IsInstance(RaisedClass, "ConnectionError") THEN "ConnectionError"
                          ELSE IF IsInstance(RaisedClass, "Timeout") THEN "TimeoutError"
                          ELSE IF IsInstance(RaisedClass, "RequestException") THEN "NetworkError"
                          ELSE "UnexpectedError"

C14_Witness ==
    /\ Called
    /\ last.status = 404
    /\ last.ctype = "text/html"
    /\ last.kind = "HttpError"

\* C15: when fetch_and_save_image returns DuplicateSkipped, the output directory
\* is exactly as it was before the call: the staged file is deleted, no final
\* file is created, and no file that was there is overwritten or removed.
C15_DuplicateLeavesDirectoryAlone ==
    [][(CallStep /\ last'.kind = "DuplicateSkipped") => disk' = disk]_vars

\* C17: over the calls of one run the hash set never shrinks, grows by exactly
\* one entry on each Success, and is unchanged by every other outcome.
C17_HashSetGrowsOnSuccessOnly ==
    [][CallStep =>
          /\ existing_hashes \subseteq existing_hashes'
          /\ last'.kind = "Success" =>
                Cardinality(existing_hashes') = Cardinality(existing_hashes) + 1
          /\ last'.kind # "Success" => existing_hashes' = existing_hashes]_vars

C17_Witness ==
    /\ printed = 3
    /\ last.kind = "UnexpectedError"
    /\ Cardinality(existing_hashes) = 2
    /\ Cardinality(succeeded) = 2

\* C18: in every state between calls, reached by seeding from the output
\* directory followed by any sequence of calls, every fingerprint in the hash
\* set is the fingerprint of some file present in the output directory.
C18_EveryFingerprintHasAFile ==
    pc \in {"loop", "done"} =>
        \A h \in existing_hashes : \E f \in DOMAIN disk : SHA256(disk[f]) = h

\* C19: within one run at most one call returns Success for any given response
\* body, whatever the URLs and the derived file names, and no response whose
\* fingerprint was seeded from disk at startup yields Success.
C19_OneSuccessPerBody ==
    [][(CallStep /\ last'.kind = "Success") =>
          /\ \A p \in succeeded : p[2] # last'.content
          /\ SHA256(last'.content) \notin seeded]_vars

C19_Witness ==
    /\ seeded # {}
    /\ last.kind = "DuplicateSkipped"
    /\ SHA256(last.content) \notin seeded
    /\ \E p \in succeeded : p[2] = last.content /\ p[1] # last.url

\* os.path.join(output_dir, name) is a direct child of output_dir
IsDirectChild(name) == name \notin {"", ".", ".."} /\ Find(name, "/", 1) = 0

\* the latest call reached the rename of line 76
RenameTried == last.kind = "Success" \/ last.failed = "rename"

\* C20: every path that fetch_and_save_image writes, renames to or deletes is a
\* direct child of the output directory, and the file name of the final path
\* contains only alphanumeric characters, '.', '_' and '-'.
C20_PathsStayInOutputDirectory ==
    /\ Staged => IsDirectChild(TempPath(last.filename))
    /\ RenameTried => IsDirectChild(last.filename)
    /\ Staged => AllIn(last.filename, SafeChars)

====
